---- MODULE Spec2Model ----
(***************************************************************************)
(* Model of services/guest-image/init/guest-init.c: the PID 1 of a microVM *)
(* guest.  One action per statement of main, setup_overlay and             *)
(* start_services that issues a system call; the kernel's answer to each   *)
(* call is an input chosen with \E among the answers the call can give in  *)
(* the current mount namespace.                                            *)
(***************************************************************************)
EXTENDS Integers, Sequences, FiniteSets, TLC

VARIABLES
  pc,        \* position of PID 1, named after the source line about to run
  mounts,    \* mount table of the namespace: set of mount records
  dirs,      \* directories on the two block devices: set of [fs, path]
  devNode,   \* TRUE iff stat("/dev/vdb") succeeds at probe time
  procs,     \* children of PID 1: role -> [st, code]
  node_pid,  \* start_services' local node_pid (0 while unset)
  socat_pid, \* start_services' local socat_pid (0 while unset)
  status,    \* start_services' local status
  calls,     \* system calls issued so far by PID 1, in order
  log,       \* source lines of the log_line calls PID 1 has executed (for
             \* ensure_dir, the line of the call that reported the failure)
  entry,     \* mount table and directories when the overlay attempt began
  ret        \* result of setup_overlay: "none", "true" or "false"

vars == <<pc, mounts, dirs, devNode, procs, node_pid, socat_pid, status,
          calls, log, entry, ret>>

----------------------------------------------------------------------------
(* Bounds of the model.                                                    *)

\* Children that run exit with a code in 0..MaxExitCode (127 is added for a
\* failed execv).
MaxExitCode == 0

\* Children that a signal kills are killed by a signal in 1..MaxSignal.
MaxSignal == 1

\* Calls of ensure_dir followed when ensure_dir is exercised on its own.
MaxEnsureCalls == 3

----------------------------------------------------------------------------
(* Paths.  A path is the sequence of its components; "/" is << >>.         *)

ROOT == << >>
OVERLAY_DEV == "/dev/vdb"
OVERLAY_MNT == <<"mnt", "overlay">>
MERGED_ROOT == <<"mnt", "merged">>
OLD_ROOT == <<"mnt", "merged", "oldroot">>
upper_dir == OVERLAY_MNT \o <<"upper">>
work_dir == OVERLAY_MNT \o <<"work">>
oldroot_path == MERGED_ROOT \o <<"oldroot">>

IsPrefix(p, q) == Len(p) <= Len(q) /\ SubSeq(q, 1, Len(p)) = p

Parent(p) == SubSeq(p, 1, Len(p) - 1)

\* The mount that a path resolves into: the deepest mount whose target is a
\* prefix of the path.
MountOf(mt, p) ==
  CHOOSE m \in mt :
    /\ IsPrefix(m.target, p)
    /\ \A n \in mt : IsPrefix(n.target, p) => Len(n.target) <= Len(m.target)

Rel(m, p) == SubSeq(p, Len(m.target) + 1, Len(p))

\* Does path p name a directory, given the mount table and the directories
\* on the devices?  A union mount shows its upper layer over the old root.
DirExists(mt, ds, p) ==
  LET m == MountOf(mt, p)
      r == Rel(m, p)
  IN  \/ r = << >>
      \/ m.type = "ext4" /\ [fs |-> m.src, path |-> r] \in ds
      \/ m.type = "overlay" /\
           \/ [fs |-> OVERLAY_DEV, path |-> <<"upper">> \o r] \in ds
           \/ [fs |-> "/dev/vda", path |-> r] \in ds

\* The directory record that mkdir(p) creates.
NewDir(mt, p) ==
  LET m == MountOf(mt, p)
      r == Rel(m, p)
  IN  IF m.type = "overlay"
      THEN [fs |-> OVERLAY_DEV, path |-> <<"upper">> \o r]
      ELSE [fs |-> m.src, path |-> r]

\* mkdir(p) can create p: p is absent, its parent is a directory, and p
\* resolves into a writable filesystem that stores directories.
CanMkdir(mt, ds, p) ==
  LET m == MountOf(mt, p)
  IN  /\ ~DirExists(mt, ds, p)
      /\ DirExists(mt, ds, Parent(p))
      /\ m.type \in {"ext4", "overlay"}
      /\ ~m.ro
      /\ m.type = "overlay" => [fs |-> OVERLAY_DEV, path |-> <<"upper">>] \in ds

Mounted(mt, p) == \E m \in mt : m.target = p

Mnt(s, t, ty) == [src |-> s, target |-> t, type |-> ty, ro |-> FALSE]

Call(op, arg) == [op |-> op, arg |-> arg]

Logged(line) == log \cup {line}

----------------------------------------------------------------------------
(* System calls: when each can succeed, and what it does to the state.     *)

\* mount(2) of a new filesystem can succeed only on an existing directory
\* that is not yet a mount point; the overlay disk needs its device node and
\* the union needs its upperdir and workdir.
MountOk(mt, ds, m) ==
  /\ DirExists(mt, ds, m.target)
  /\ ~Mounted(mt, m.target)
  /\ m.src = OVERLAY_DEV => devNode
  /\ m.type = "overlay" =>
       DirExists(mt, ds, upper_dir) /\ DirExists(mt, ds, work_dir)

\* umount(2) can succeed only on a mount point with nothing mounted below
\* it.  A mounted union does not keep the staging mount busy: overlayfs
\* holds its own clone of the mount of its upper layer.
UmountOk(mt, t) ==
  /\ Mounted(mt, t)
  /\ \A n \in mt : IsPrefix(t, n.target) => n.target = t

Umount(mt, t) == {m \in mt : m.target # t}

\* umount2(t, MNT_DETACH) takes the mount at t and every mount below it out
\* of the namespace.
Detach(mt, t) == {m \in mt : ~IsPrefix(t, m.target)}

\* pivot_root(new_root, put_old) needs new_root to be a mount point and
\* put_old to be a directory at or below it.
PivotOk(mt, ds, new_root, put_old) ==
  /\ Mounted(mt, new_root)
  /\ new_root # ROOT
  /\ IsPrefix(new_root, put_old)
  /\ DirExists(mt, ds, put_old)

\* After pivot_root the mounts at or below new_root are seen from the new
\* root, and the old root with everything else is seen below put_old.
PivotRoot(mt, new_root, put_old) ==
  LET anchor == SubSeq(put_old, Len(new_root) + 1, Len(put_old))
  IN  { IF IsPrefix(new_root, m.target)
        THEN [m EXCEPT !.target = SubSeq(m.target, Len(new_root) + 1, Len(m.target))]
        ELSE [m EXCEPT !.target = anchor \o m.target] : m \in mt }

\* mount(NULL, "/", NULL, MS_REMOUNT, NULL): the root mount's flags become
\* exactly MS_REMOUNT, so MS_RDONLY is cleared.
Remount(mt, t) ==
  {IF m.target = t THEN [m EXCEPT !.ro = FALSE] ELSE m : m \in mt}

\* rmdir(2) can succeed only on an empty directory that is no mount point
\* and lives on a writable filesystem.
RmdirOk(mt, ds, p) ==
  /\ ~Mounted(mt, p)
  /\ NewDir(mt, p) \in ds
  /\ ~MountOf(mt, p).ro
  /\ ~\E d \in ds : d.fs = NewDir(mt, p).fs /\ d.path # NewDir(mt, p).path
                      /\ IsPrefix(NewDir(mt, p).path, d.path)

RootMount(mt) == CHOOSE m \in mt : m.target = ROOT

----------------------------------------------------------------------------
(* Leaf helpers of the program.                                            *)

\* Mutant of ensure_dir: the errno != EEXIST test is missing, so an existing
\* directory is logged as a failure.
ensure_dir_noeexist(p, site) ==
  \/ /\ CanMkdir(mounts, dirs, p)
     /\ dirs' = dirs \cup {NewDir(mounts, p)}
     /\ log' = log
  \/ /\ ~CanMkdir(mounts, dirs, p)
     /\ dirs' = dirs
     /\ log' = Logged(site)

\* ensure_dir(p, mode): mkdir creates p, or answers EEXIST (silent), or
\* fails for another reason, which is logged (the log records the line of
\* the ensure_dir call that reported it).
ensure_dir(p, site) ==
  \/ /\ CanMkdir(mounts, dirs, p)
     /\ dirs' = dirs \cup {NewDir(mounts, p)}
     /\ log' = log
  \/ /\ DirExists(mounts, dirs, p)
     /\ dirs' = dirs
     /\ log' = log
  \/ /\ ~DirExists(mounts, dirs, p)
     /\ dirs' = dirs
     /\ log' = Logged(site)

file_exists(path) == path = OVERLAY_DEV /\ devNode

should_use_overlay == file_exists(OVERLAY_DEV)

\* Mutant of mount_vfs: the result of mount() is not looked at.
mount_vfs_unchecked(m, line) ==
  \E ok \in BOOLEAN :
    /\ ok => MountOk(mounts, dirs, m)
    /\ mounts' = IF ok THEN mounts \cup {m} ELSE mounts
    /\ calls' = Append(calls, Call("mount", m.target))
    /\ log' = log

\* mount() of a virtual filesystem in main: a failure is logged, and main
\* goes on either way.
mount_vfs(m, line) ==
  \E ok \in BOOLEAN :
    /\ ok => MountOk(mounts, dirs, m)
    /\ mounts' = IF ok THEN mounts \cup {m} ELSE mounts
    /\ calls' = Append(calls, Call("mount", m.target))
    /\ log' = IF ok THEN log ELSE Logged(line)

ProcMnt == Mnt("proc", <<"proc">>, "proc")
SysMnt == Mnt("sysfs", <<"sys">>, "sysfs")
DevMnt == Mnt("devtmpfs", <<"dev">>, "devtmpfs")
StagingMnt == Mnt(OVERLAY_DEV, OVERLAY_MNT, "ext4")
UnionMnt == Mnt("overlay", MERGED_ROOT, "overlay")

----------------------------------------------------------------------------
(* Initial state: PID 1 is about to run main.  The root filesystem is the  *)
(* base image on /dev/vda; the overlay disk is fresh or was used by an     *)
(* earlier boot.                                                           *)

Vda(p) == [fs |-> "/dev/vda", path |-> p]
Vdb(p) == [fs |-> OVERLAY_DEV, path |-> p]

ImageFull == {Vda(<<"proc">>), Vda(<<"sys">>), Vda(<<"dev">>),
              Vda(<<"var">>), Vda(<<"var", "log">>),
              Vda(<<"mnt">>), Vda(OVERLAY_MNT), Vda(MERGED_ROOT)}

ImageNoMerged == ImageFull \ {Vda(MERGED_ROOT)}
ImageNoSys == ImageFull \ {Vda(<<"sys">>), Vda(<<"var", "log">>),
                            Vda(MERGED_ROOT)}

\* The directory overlayfs makes for itself inside workdir when the union
\* is mounted; it stays on the disk after an unmount.
OverlayWork == Vdb(<<"work", "work">>)

DiskFresh == {}
DiskUsed == {Vdb(<<"upper">>), Vdb(<<"work">>), OverlayWork}

\* The boots considered: the base image's directories, whether the kernel
\* mounted it read-only, and the overlay disk's directories.
Boots == { [image |-> ImageFull, ro |-> TRUE, disk |-> DiskUsed],
           [image |-> ImageFull, ro |-> TRUE, disk |-> DiskFresh],
           [image |-> ImageNoMerged, ro |-> FALSE, disk |-> DiskFresh],
           [image |-> ImageNoSys, ro |-> TRUE, disk |-> DiskUsed] }

Roles == {"ip_lo_up", "ip_lo_addr", "node", "socat"}

Init ==
  /\ pc = "L205"
  /\ \E b \in Boots :
       /\ mounts = {[src |-> "/dev/vda", target |-> ROOT, type |-> "ext4",
                     ro |-> b.ro]}
       /\ dirs = b.image \cup b.disk
  /\ devNode \in BOOLEAN
  /\ procs = [r \in Roles |-> [st |-> "none", code |-> 0, sig |-> 0, core |-> FALSE]]
  /\ node_pid = 0
  /\ socat_pid = 0
  /\ status = 0
  /\ calls = << >>
  /\ log = {}
  /\ entry = [mounts |-> {}, dirs |-> {}]
  /\ ret = "none"

----------------------------------------------------------------------------
(* main, lines 204-246.                                                    *)

fsvars == <<mounts, dirs>>
svcvars == <<procs, node_pid, socat_pid, status>>
ovlvars == <<entry, ret>>

\* ensure_dir("/var", 0755)
main_L205 ==
  /\ pc = "L205"
  /\ ensure_dir(<<"var">>, 205)
  /\ pc' = "L206"
  /\ UNCHANGED <<mounts, devNode, calls, svcvars, ovlvars>>

\* ensure_dir("/var/log", 0755)
main_L206 ==
  /\ pc = "L206"
  /\ ensure_dir(<<"var", "log">>, 206)
  /\ pc' = "L209"
  /\ UNCHANGED <<mounts, devNode, calls, svcvars, ovlvars>>

\* redirect_stdio_to_console(); log_line("[init] pid=%d starting");
\* setenv("PATH"): of these only the log line is modelled.
main_L209 ==
  /\ pc = "L209"
  /\ log' = Logged(209)
  /\ pc' = "L213"
  /\ UNCHANGED <<fsvars, devNode, calls, svcvars, ovlvars>>

main_L213 ==
  /\ pc = "L213"
  /\ ensure_dir(<<"proc">>, 213)
  /\ pc' = "L214"
  /\ UNCHANGED <<mounts, devNode, calls, svcvars, ovlvars>>

main_L214 ==
  /\ pc = "L214"
  /\ ensure_dir(<<"sys">>, 214)
  /\ pc' = "L215"
  /\ UNCHANGED <<mounts, devNode, calls, svcvars, ovlvars>>

main_L215 ==
  /\ pc = "L215"
  /\ ensure_dir(<<"dev">>, 215)
  /\ pc' = "L216"
  /\ UNCHANGED <<mounts, devNode, calls, svcvars, ovlvars>>

main_L216 ==
  /\ pc = "L216"
  /\ mount_vfs(ProcMnt, 216)
  /\ pc' = "L217"
  /\ UNCHANGED <<dirs, devNode, svcvars, ovlvars>>

main_L217 ==
  /\ pc = "L217"
  /\ mount_vfs(SysMnt, 217)
  /\ pc' = "L218"
  /\ UNCHANGED <<dirs, devNode, svcvars, ovlvars>>

main_L218 ==
  /\ pc = "L218"
  /\ mount_vfs(DevMnt, 218)
  /\ pc' = "L221"
  /\ UNCHANGED <<dirs, devNode, svcvars, ovlvars>>

\* Mutant of AfterProbe: setup_overlay is entered whatever the probe says.
AfterProbe_always(b) == "L101"

\* Where main goes from the probe of line 221 when the probe answers b.
AfterProbe(b) == IF b THEN "L101" ELSE "L237"

\* if (should_use_overlay()): the probe; with the device, setup_overlay is
\* entered (its first log_line is line 98).
main_L221 ==
  /\ pc = "L221"
  /\ pc' = AfterProbe(should_use_overlay)
  /\ calls' = Append(calls, Call("stat", <<"dev", "vdb">>))
  /\ entry' = [mounts |-> mounts, dirs |-> dirs]
  /\ log' = IF should_use_overlay THEN Logged(98) ELSE log
  /\ UNCHANGED <<fsvars, devNode, svcvars, ret>>

\* Mutant of AfterSetup: after a root switch main starts the services
\* without mounting /proc, /sys and /dev again.
AfterSetup_noremount(r) == IF r = "true" THEN "L243" ELSE "L232"

\* Mutant of AfterSetup: a failed overlay setup is fatal and main returns.
AfterSetup_fatal(r) == IF r = "true" THEN "L226" ELSE "L245"

\* Where main goes when setup_overlay has returned r.
AfterSetup(r) == IF r = "true" THEN "L226" ELSE "L232"

\* if (setup_overlay()) ... else ...: the branch on the returned value.
main_L222 ==
  /\ pc = "L222"
  /\ pc' = AfterSetup(ret)
  /\ log' = IF ret = "true" THEN Logged(225) ELSE Logged(230)
  /\ UNCHANGED <<fsvars, devNode, calls, svcvars, ovlvars>>

main_L226 ==
  /\ pc = "L226"
  /\ mount_vfs(ProcMnt, 226)
  /\ pc' = "L227"
  /\ UNCHANGED <<dirs, devNode, svcvars, ovlvars>>

main_L227 ==
  /\ pc = "L227"
  /\ mount_vfs(SysMnt, 227)
  /\ pc' = "L228"
  /\ UNCHANGED <<dirs, devNode, svcvars, ovlvars>>

main_L228 ==
  /\ pc = "L228"
  /\ mount_vfs(DevMnt, 228)
  /\ pc' = "L243"
  /\ UNCHANGED <<dirs, devNode, svcvars, ovlvars>>

\* mount(NULL, "/", NULL, MS_REMOUNT, NULL), logged and ignored on failure
main_L232 ==
  /\ pc = "L232"
  /\ \E ok \in BOOLEAN :
       /\ mounts' = IF ok THEN Remount(mounts, ROOT) ELSE mounts
       /\ calls' = Append(calls, Call("remount", ROOT))
       /\ log' = IF ok THEN log ELSE Logged(233)
  /\ pc' = "L243"
  /\ UNCHANGED <<dirs, devNode, svcvars, ovlvars>>

\* the else branch of line 236: a log line and nothing else
main_L237 ==
  /\ pc = "L237"
  /\ log' = Logged(237)
  /\ pc' = "L243"
  /\ UNCHANGED <<fsvars, devNode, calls, svcvars, ovlvars>>

\* start_services(); its first log_line is line 168
main_L243 ==
  /\ pc = "L243"
  /\ log' = Logged(168)
  /\ pc' = "L170"
  /\ UNCHANGED <<fsvars, devNode, calls, svcvars, ovlvars>>

----------------------------------------------------------------------------
(* setup_overlay, lines 97-163.                                            *)

setup_L101 ==
  /\ pc = "L101"
  /\ ensure_dir(<<"mnt">>, 101)
  /\ pc' = "L102"
  /\ UNCHANGED <<mounts, devNode, calls, svcvars, ovlvars>>

setup_L102 ==
  /\ pc = "L102"
  /\ ensure_dir(OVERLAY_MNT, 102)
  /\ pc' = "L103"
  /\ UNCHANGED <<mounts, devNode, calls, svcvars, ovlvars>>

setup_L103 ==
  /\ pc = "L103"
  /\ ensure_dir(MERGED_ROOT, 103)
  /\ pc' = "L107"
  /\ UNCHANGED <<mounts, devNode, calls, svcvars, ovlvars>>

\* mount(OVERLAY_DEV, OVERLAY_MNT, "ext4", 0, NULL); on failure return false
setup_L107 ==
  /\ pc = "L107"
  /\ \E ok \in BOOLEAN :
       /\ ok => MountOk(mounts, dirs, StagingMnt)
       /\ mounts' = IF ok THEN mounts \cup {StagingMnt} ELSE mounts
       /\ calls' = Append(calls, Call("mount", OVERLAY_MNT))
       /\ log' = IF ok THEN Logged(106) ELSE log \cup {106, 108}
       /\ pc' = IF ok THEN "L116" ELSE "L222"
       /\ ret' = IF ok THEN ret ELSE "false"
  /\ UNCHANGED <<dirs, devNode, svcvars, entry>>

setup_L116 ==
  /\ pc = "L116"
  /\ ensure_dir(upper_dir, 116)
  /\ pc' = "L117"
  /\ UNCHANGED <<mounts, devNode, calls, svcvars, ovlvars>>

setup_L117 ==
  /\ pc = "L117"
  /\ ensure_dir(work_dir, 117)
  /\ pc' = "L126"
  /\ UNCHANGED <<mounts, devNode, calls, svcvars, ovlvars>>

\* mount("overlay", MERGED_ROOT, "overlay", 0, overlay_opts); on failure go
\* to the unmount of line 129
setup_L126 ==
  /\ pc = "L126"
  /\ \E ok \in BOOLEAN :
       /\ ok => MountOk(mounts, dirs, UnionMnt)
       /\ mounts' = IF ok THEN mounts \cup {UnionMnt} ELSE mounts
       /\ dirs' = IF ok THEN dirs \cup {OverlayWork} ELSE dirs
       /\ calls' = Append(calls, Call("mount", MERGED_ROOT))
       /\ log' = IF ok THEN Logged(125) ELSE log \cup {125, 127}
       /\ pc' = IF ok THEN "L136" ELSE "L129"
  /\ UNCHANGED <<devNode, svcvars, ovlvars>>

\* umount(t) with its result ignored, as lines 129, 142 and 143 call it
umount_ignored(t) ==
  \E ok \in BOOLEAN :
    /\ ok => UmountOk(mounts, t)
    /\ mounts' = IF ok THEN Umount(mounts, t) ELSE mounts
    /\ calls' = Append(calls, Call("umount", t))

\* Mutant of setup_L129: the rollback unmounts the merged root, which was
\* never mounted, instead of the staging mount.
setup_L129_wrongtarget ==
  /\ pc = "L129"
  /\ umount_ignored(MERGED_ROOT)
  /\ ret' = "false"
  /\ pc' = "L222"
  /\ UNCHANGED <<dirs, devNode, log, svcvars, entry>>

\* umount(OVERLAY_MNT); return false
setup_L129 ==
  /\ pc = "L129"
  /\ umount_ignored(OVERLAY_MNT)
  /\ ret' = "false"
  /\ pc' = "L222"
  /\ UNCHANGED <<dirs, devNode, log, svcvars, entry>>

setup_L136 ==
  /\ pc = "L136"
  /\ ensure_dir(oldroot_path, 136)
  /\ pc' = "L140"
  /\ UNCHANGED <<mounts, devNode, calls, svcvars, ovlvars>>

\* syscall(SYS_pivot_root, MERGED_ROOT, oldroot_path); on failure go to the
\* unmounts of lines 142-143
setup_L140 ==
  /\ pc = "L140"
  /\ \E ok \in BOOLEAN :
       /\ ok => PivotOk(mounts, dirs, MERGED_ROOT, oldroot_path)
       /\ mounts' = IF ok THEN PivotRoot(mounts, MERGED_ROOT, oldroot_path)
                          ELSE mounts
       /\ calls' = Append(calls, Call("pivot_root", MERGED_ROOT))
       /\ log' = IF ok THEN Logged(139) ELSE log \cup {139, 141}
       /\ pc' = IF ok THEN "L148" ELSE "L142"
  /\ UNCHANGED <<dirs, devNode, svcvars, ovlvars>>

\* umount(MERGED_ROOT)
setup_L142 ==
  /\ pc = "L142"
  /\ umount_ignored(MERGED_ROOT)
  /\ pc' = "L143"
  /\ UNCHANGED <<dirs, devNode, log, svcvars, ovlvars>>

\* umount(OVERLAY_MNT); return false
setup_L143 ==
  /\ pc = "L143"
  /\ umount_ignored(OVERLAY_MNT)
  /\ ret' = "false"
  /\ pc' = "L222"
  /\ UNCHANGED <<dirs, devNode, log, svcvars, entry>>

\* chdir("/"), logged on failure
setup_L148 ==
  /\ pc = "L148"
  /\ \E ok \in BOOLEAN :
       /\ calls' = Append(calls, Call("chdir", ROOT))
       /\ log' = IF ok THEN log ELSE Logged(149)
  /\ pc' = "L154"
  /\ UNCHANGED <<fsvars, devNode, svcvars, ovlvars>>

\* Mutant of DetachOldRoot: the old root is left mounted.
DetachOldRoot_kept(mt) == mt

\* Mutant of DetachOldRoot: without MNT_DETACH only the mount at /oldroot
\* goes and the mounts below it stay.
DetachOldRoot_shallow(mt) == {m \in mt : m.target # <<"oldroot">>}

\* What a successful umount2("/oldroot", MNT_DETACH) leaves mounted.
DetachOldRoot(mt) == Detach(mt, <<"oldroot">>)

\* umount2("/oldroot", MNT_DETACH), logged as non-fatal on failure
setup_L154 ==
  /\ pc = "L154"
  /\ \E ok \in BOOLEAN :
       /\ ok => Mounted(mounts, <<"oldroot">>)
       /\ mounts' = IF ok THEN DetachOldRoot(mounts) ELSE mounts
       /\ calls' = Append(calls, Call("umount2", <<"oldroot">>))
       /\ log' = IF ok THEN Logged(153) ELSE log \cup {153, 155}
  /\ pc' = "L159"
  /\ UNCHANGED <<dirs, devNode, svcvars, ovlvars>>

\* rmdir("/oldroot") with its result ignored; return true
setup_L159 ==
  /\ pc = "L159"
  /\ \E ok \in BOOLEAN :
       /\ ok => RmdirOk(mounts, dirs, <<"oldroot">>)
       /\ dirs' = IF ok THEN dirs \ {NewDir(mounts, <<"oldroot">>)} ELSE dirs
       /\ calls' = Append(calls, Call("rmdir", <<"oldroot">>))
  /\ log' = Logged(161)
  /\ ret' = "true"
  /\ pc' = "L222"
  /\ UNCHANGED <<mounts, devNode, svcvars, entry>>

----------------------------------------------------------------------------
(* Child processes, and spawn (lines 60-72) and run_wait (lines 74-83).    *)

PidOf == [r \in Roles |->
            CASE r = "ip_lo_up" -> 2 [] r = "ip_lo_addr" -> 3
              [] r = "node" -> 4 [] r = "socat" -> 5]

\* The signals by which a child is seen to end: any signal, up to the bound.
Signals == 1..MaxSignal

\* The signals whose default action dumps core (SIGQUIT, SIGILL, SIGTRAP,
\* SIGABRT, SIGBUS, SIGFPE, SIGSEGV, SIGXCPU, SIGXFSZ, SIGSYS); whether a
\* core is dumped depends on the child's limits.
CoreSignals == {3, 4, 5, 6, 7, 8, 11, 24, 25, 31}

\* The wait status waitpid stores for child p: for a child a signal killed
\* the signal's number, with bit 0x80 set when it dumped core; for a child
\* that called exit(code) the exit code in the second byte.
WaitStatus(p) ==
  IF p.sig > 0
  THEN p.sig + (IF p.core THEN 128 ELSE 0)
  ELSE p.code * 256

\* spawn(path, argv) in the parent: fork fails (logged, -1), or the child
\* exists and its pid is returned.  pid is the value returned; announce
\* holds the line at which the caller logs a pid > 0 (lines 183 and 191).
spawn(r, pid, announce) ==
  \/ /\ pid = -1
     /\ procs' = procs
     /\ calls' = Append(calls, Call("fork", <<r>>))
     /\ log' = Logged(63)
  \/ /\ pid = PidOf[r]
     /\ procs' = [procs EXCEPT ![r].st = "forked"]
     /\ calls' = Append(calls, Call("fork", <<r>>))
     /\ log' = log \cup announce

\* Mutant of waitpid: the call waits for any child (pid -1), and returns
\* with the first child that has exited.
waitpid_any(r) ==
  \E q \in Roles :
    /\ procs[q].st = "exited"
    /\ procs' = [procs EXCEPT ![q] = [st |-> "none", code |-> 0, sig |-> 0, core |-> FALSE]]
    /\ calls' = Append(calls, Call("waitpid", <<q>>))

\* waitpid(pid of r, &status, 0) in the parent: returns once r has exited,
\* and the child, reaped, is no longer a process.  The call names a live
\* child of a process that installs no signal handler, so the error returns
\* of waitpid (ECHILD, EINTR) do not arise.
waitpid(r) ==
  /\ procs[r].st = "exited"
  /\ procs' = [procs EXCEPT ![r] = [st |-> "none", code |-> 0, sig |-> 0, core |-> FALSE]]
  /\ calls' = Append(calls, Call("waitpid", <<r>>))

\* Mutant of ExecFailed: without _exit the child returns 0 from spawn and
\* goes on in its caller, as a second process running init.
ExecFailed_returns == [st |-> "init", code |-> 0, sig |-> 0, core |-> FALSE]

\* The child after a failed execv, lines 68-69: it has logged and called
\* _exit(127).
ExecFailed == [st |-> "exited", code |-> 127, sig |-> 0, core |-> FALSE]

\* The child side of spawn, lines 66-70: execv replaces the child's image,
\* or fails, and then the child logs and calls _exit(127).
child_exec(r) ==
  /\ procs[r].st = "forked"
  /\ \/ procs' = [procs EXCEPT ![r].st = "running"]
     \/ procs' = [procs EXCEPT ![r] = ExecFailed]
  /\ UNCHANGED <<pc, fsvars, devNode, node_pid, socat_pid, status, calls,
                 log, ovlvars>>

\* A program started by execv ends with some exit code, or a signal kills
\* it, with or without a core dump when the signal is one that dumps core.
child_exit(r) ==
  /\ procs[r].st = "running"
  /\ \/ \E c \in 0..MaxExitCode :
          procs' = [procs EXCEPT ![r] = [st |-> "exited", code |-> c, sig |-> 0, core |-> FALSE]]
     \/ \E s \in Signals :
          \E c \in (IF s \in CoreSignals THEN BOOLEAN ELSE {FALSE}) :
            procs' = [procs EXCEPT ![r] = [st |-> "exited", code |-> 0,
                                           sig |-> s, core |-> c]]
  /\ UNCHANGED <<pc, fsvars, devNode, node_pid, socat_pid, status, calls,
                 log, ovlvars>>

Children == \E r \in Roles : child_exec(r) \/ child_exit(r)

----------------------------------------------------------------------------
(* start_services, lines 165-202.                                          *)

\* run_wait("/sbin/ip", ip_lo_up): the spawn; without a child run_wait
\* returns -1 at once
start_L170 ==
  /\ pc = "L170"
  /\ \E pid \in {-1, PidOf["ip_lo_up"]} :
       /\ spawn("ip_lo_up", pid, {})
       /\ pc' = IF pid < 0 THEN "L173" ELSE "L170w"
  /\ UNCHANGED <<fsvars, devNode, node_pid, socat_pid, status, ovlvars>>

\* run_wait: the waitpid of line 78
start_L170w ==
  /\ pc = "L170w"
  /\ waitpid("ip_lo_up")
  /\ pc' = "L173"
  /\ UNCHANGED <<fsvars, devNode, node_pid, socat_pid, status, log, ovlvars>>

start_L173 ==
  /\ pc = "L173"
  /\ \E pid \in {-1, PidOf["ip_lo_addr"]} :
       /\ spawn("ip_lo_addr", pid, {})
       /\ pc' = IF pid < 0 THEN "L180" ELSE "L173w"
  /\ UNCHANGED <<fsvars, devNode, node_pid, socat_pid, status, ovlvars>>

start_L173w ==
  /\ pc = "L173w"
  /\ waitpid("ip_lo_addr")
  /\ pc' = "L180"
  /\ UNCHANGED <<fsvars, devNode, node_pid, socat_pid, status, log, ovlvars>>

\* setenv("JAIL_SHELL"), setenv("PORT"), chdir("/opt/guest-agent") with its
\* result ignored
start_L180 ==
  /\ pc = "L180"
  /\ calls' = Append(calls, Call("chdir", <<"opt", "guest-agent">>))
  /\ log' = log \cup {175, 178}
  /\ pc' = "L182"
  /\ UNCHANGED <<fsvars, devNode, svcvars, ovlvars>>

\* pid_t node_pid = spawn("/usr/local/bin/node", node_argv)
start_L182 ==
  /\ pc = "L182"
  /\ \E pid \in {-1, PidOf["node"]} :
       /\ spawn("node", pid, {183})
       /\ node_pid' = pid
  /\ pc' = "L186"
  /\ UNCHANGED <<fsvars, devNode, socat_pid, status, ovlvars>>

\* usleep(200 * 1000)
start_L186 ==
  /\ pc = "L186"
  /\ calls' = Append(calls, Call("usleep", << >>))
  /\ log' = Logged(188)
  /\ pc' = "L190"
  /\ UNCHANGED <<fsvars, devNode, svcvars, ovlvars>>

\* Mutant of start_L190: the bridge is launched only while the workload has
\* not exited.
start_L190_ifalive ==
  /\ pc = "L190"
  /\ IF procs["node"].st = "exited"
     THEN /\ socat_pid' = -1
          /\ UNCHANGED <<procs, calls, log>>
     ELSE \E pid \in {-1, PidOf["socat"]} :
            /\ spawn("socat", pid, {191})
            /\ socat_pid' = pid
  /\ pc' = "L194"
  /\ UNCHANGED <<fsvars, devNode, node_pid, status, ovlvars>>

\* pid_t socat_pid = spawn("/usr/bin/socat", socat_argv)
start_L190 ==
  /\ pc = "L190"
  /\ \E pid \in {-1, PidOf["socat"]} :
       /\ spawn("socat", pid, {191})
       /\ socat_pid' = pid
  /\ pc' = "L194"
  /\ UNCHANGED <<fsvars, devNode, node_pid, status, ovlvars>>

\* Mutant of AfterBridge: the wait is entered whatever node_pid is.
AfterBridge_alwayswait(pid) == "L195"

\* Mutant of AfterBridge: the wait is never entered.
AfterBridge_nowait(pid) == "L199"

\* Where start_services goes from line 194 with node_pid = pid.
AfterBridge(pid) == IF pid > 0 THEN "L195" ELSE "L199"

\* if (node_pid > 0)
start_L194 ==
  /\ pc = "L194"
  /\ pc' = AfterBridge(node_pid)
  /\ UNCHANGED <<fsvars, devNode, svcvars, calls, log, ovlvars>>

\* waitpid(node_pid, &status, 0); log_line of the status
start_L195 ==
  /\ pc = "L195"
  /\ waitpid("node")
  /\ status' = WaitStatus(procs["node"])
  /\ log' = Logged(196)
  /\ pc' = "L199"
  /\ UNCHANGED <<fsvars, devNode, node_pid, socat_pid, ovlvars>>

\* Mutant of AfterSleep: the supervisor starts the workload again.
AfterSleep_restart == "L182"

\* Mutant of AfterSleep: the loop ends and main returns at line 245.
AfterSleep_return == "L245"

\* Where control goes after one sleep(3600) of the loop of line 199.
AfterSleep == "L199"

\* for (;;) { sleep(3600); }
start_L199 ==
  /\ pc = "L199"
  /\ pc' = AfterSleep
  /\ UNCHANGED <<fsvars, devNode, svcvars, calls, log, ovlvars>>

----------------------------------------------------------------------------

Pid1 ==
  \/ main_L205 \/ main_L206 \/ main_L209 \/ main_L213 \/ main_L214 \/ main_L215
  \/ main_L216 \/ main_L217 \/ main_L218 \/ main_L221 \/ main_L222
  \/ main_L226 \/ main_L227 \/ main_L228 \/ main_L232 \/ main_L237
  \/ main_L243
  \/ setup_L101 \/ setup_L102 \/ setup_L103 \/ setup_L107 \/ setup_L116
  \/ setup_L117 \/ setup_L126 \/ setup_L129 \/ setup_L136 \/ setup_L140
  \/ setup_L142 \/ setup_L143 \/ setup_L148 \/ setup_L154 \/ setup_L159
  \/ start_L170 \/ start_L170w \/ start_L173 \/ start_L173w \/ start_L180
  \/ start_L182 \/ start_L186 \/ start_L190 \/ start_L194 \/ start_L195
  \/ start_L199

Next == Pid1 \/ Children

Spec == Init /\ [][Next]_vars

\* PID 1 runs alone and every call it makes returns, except that waitpid
\* returns only once the child it names has exited; the two ip helpers run
\* by run_wait are scheduled and end.  Nothing is assumed of the workload
\* and of the bridge.
Helpers == {"ip_lo_up", "ip_lo_addr"}

FairSpec ==
  /\ Spec
  /\ WF_vars(Pid1)
  /\ \A r \in Helpers : WF_vars(child_exec(r)) /\ WF_vars(child_exit(r))

----------------------------------------------------------------------------
(* Vocabulary of the properties.                                           *)

PreProbePcs == {"L205", "L206", "L209", "L213", "L214", "L215", "L216", "L217",
                "L218", "L221"}
SetupPcs == {"L101", "L102", "L103", "L107", "L116", "L117", "L126", "L129",
             "L136", "L140", "L142", "L143", "L148", "L154", "L159"}
ServicePcs == {"L170", "L170w", "L173", "L173w", "L180", "L182", "L186",
               "L190", "L194", "L195", "L199"}
AllPcs == PreProbePcs \cup SetupPcs \cup ServicePcs \cup
          {"L222", "L226", "L227", "L228", "L232", "L237", "L243"}

Issued(op, arg) == \E i \in 1..Len(calls) : calls[i] = Call(op, arg)

\* Position in calls of the only call of op (0 when there is none).
IndexOf(op) ==
  IF \E i \in 1..Len(calls) : calls[i].op = op
  THEN CHOOSE i \in 1..Len(calls) : calls[i].op = op
  ELSE 0

\* The calls issued after position i.
CallsAfter(i) == SubSeq(calls, i + 1, Len(calls))

NamespaceOps == {"mount", "umount", "umount2", "pivot_root", "remount"}

\* The root of PID 1 is the union filesystem / the base image.
RootIsUnion == RootMount(mounts).type = "overlay"
RootIsOriginal == RootMount(mounts).src = "/dev/vda"

\* setup_overlay has returned after the failure logged at this line.
FailedAt(line) == pc = "L222" /\ line \in log

TypeOK ==
  /\ pc \in AllPcs
  /\ \A m \in mounts : m.ro \in BOOLEAN /\ m.target \in Seq(STRING)
  /\ \E m \in mounts : m.target = ROOT
  /\ devNode \in BOOLEAN
  /\ \A r \in Roles : procs[r].st \in {"none", "forked", "running", "exited"}
  /\ node_pid \in {-1, 0, PidOf["node"]}
  /\ socat_pid \in {-1, 0, PidOf["socat"]}
  /\ ret \in {"none", "true", "false"}

----------------------------------------------------------------------------
(* The overlay transition.                                                 *)

\* C1: when the staging and union mounts succeeded and pivot_root failed,
\* setup_overlay returns false and, as it returns, neither /mnt/merged nor
\* /mnt/overlay is mounted: the mount table is the one it was entered with.
C1_PivotFailureRestoresMounts ==
  FailedAt(141) =>
    /\ ret = "false"
    /\ ~Mounted(mounts, MERGED_ROOT)
    /\ ~Mounted(mounts, OVERLAY_MNT)
    /\ mounts = entry.mounts

\* C2: when the staging mount succeeded and the union mount failed,
\* setup_overlay returns false and the staging mount is gone as it returns:
\* no mount added by the attempt remains.
C2_UnionFailureUnmountsStaging ==
  FailedAt(127) =>
    /\ ret = "false"
    /\ ~Mounted(mounts, OVERLAY_MNT)
    /\ mounts = entry.mounts

\* C3: with the device node absent at the probe, the attempt is Skipped:
\* setup_overlay is never entered, no mount, unmount or pivot is issued
\* after the probe, and the mount table stays the one found at the probe.
C3_AbsentDeviceSkips ==
  (~devNode /\ pc \notin PreProbePcs) =>
    /\ pc \notin SetupPcs
    /\ ret # "true"
    /\ mounts = entry.mounts
    /\ \A i \in IndexOf("stat") + 1 .. Len(calls) : calls[i].op \notin NamespaceOps

C3_Witness ==
  /\ ~devNode
  /\ pc = "L243"
  /\ Mounted(mounts, <<"proc">>)
  /\ Issued("stat", <<"dev", "vdb">>)

\* pivot_root (line 140) and umount2 (line 154) have both been called and
\* neither has logged a failure.
SwitchedAndDetached ==
  /\ 139 \in log /\ 141 \notin log
  /\ 153 \in log /\ 155 \notin log

\* C4: when the staging mount, the union mount, the root switch and the
\* lazy unmount of the old root all succeeded, setup_overlay returns true,
\* the root of the process is the union filesystem that was mounted at
\* /mnt/merged, and the base image is mounted nowhere: not at / and not at
\* /oldroot.
C4_AppliedDetachesOldRoot ==
  SwitchedAndDetached =>
    /\ pc = "L222" => ret = "true"
    /\ pc \notin SetupPcs => ret = "true"
    /\ RootIsUnion
    /\ RootMount(mounts) = [UnionMnt EXCEPT !.target = ROOT]
    /\ ~Mounted(mounts, <<"oldroot">>)
    /\ \A m \in mounts : m.src # "/dev/vda"

C4_Witness ==
  /\ pc = "L222"
  /\ ret = "true"
  /\ SwitchedAndDetached
  /\ Issued("umount2", <<"oldroot">>)
  /\ Mounted(entry.mounts, <<"proc">>)
  /\ RootIsUnion

\* C5: the attempt never ends partially applied, whatever the system calls
\* answer: returning false, the root is the original root and neither the
\* staging mount nor the union mount is present; returning true, the root is
\* the union filesystem.
C5_NeverPartiallyApplied ==
  pc = "L222" =>
    /\ ret = "false" =>
         /\ RootIsOriginal
         /\ ~Mounted(mounts, OVERLAY_MNT)
         /\ ~Mounted(mounts, MERGED_ROOT)
    /\ ret = "true" => RootIsUnion

----------------------------------------------------------------------------
(* The boot sequence and the supervisor.                                   *)

\* C6: PID 1 never returns from main (line 245 is never reached); once the
\* wait on the workload has completed, or has been skipped because node_pid
\* is not a pid, the next position is the parking loop, and the parking loop
\* is never left.
C6_NeverExits ==
  [][ /\ pc' \in AllPcs
      /\ pc = "L199" => pc' = "L199"
      /\ (pc = "L195" /\ pc' # pc) => pc' = "L199"
      /\ (pc = "L194" /\ node_pid <= 0 /\ pc' # pc) => pc' = "L199" ]_vars

C6_Witness ==
  /\ pc = "L199"
  /\ Issued("waitpid", <<"node">>)
  /\ 196 \in log

\* C7: in every execution where the root switch succeeded, /proc, /sys and
\* /dev are each mounted again after pivot_root and the detach of the old
\* root, and before any child process is forked.
C7_RemountBetweenPivotAndServices ==
  (ret = "true" /\ pc \in ServicePcs) =>
    \A t \in {<<"proc">>, <<"sys">>, <<"dev">>} :
      \E j \in 1..Len(calls) :
        /\ calls[j] = Call("mount", t)
        /\ j > IndexOf("pivot_root")
        /\ j > IndexOf("umount2")
        /\ IndexOf("pivot_root") > 0
        /\ IndexOf("umount2") > 0
        /\ \A i \in 1..Len(calls) : calls[i].op = "fork" => j < i

C7_Witness ==
  /\ ret = "true"
  /\ pc = "L186"
  /\ node_pid > 0
  /\ Issued("fork", <<"ip_lo_up">>)
  /\ Mounted(mounts, <<"proc">>)

\* C8: whenever the overlay outcome is Skipped (device absent, or a setup
\* step failed), an in-place remount of / has been attempted before the
\* supervisor starts, whatever the result of that remount.
C8_SkippedRemountsRoot ==
  (pc \in ServicePcs /\ ret # "true") => Issued("remount", ROOT)

\* C9: when the launch of the workload fails (spawn returns -1), the
\* supervisor goes on: it waits the readiness delay, attempts to launch the
\* bridge, issues no waitpid on the workload and goes straight from line 194
\* to the parking loop.
C9_LaunchFailureSkipsWait ==
  node_pid = -1 =>
    /\ pc \in {"L186", "L190", "L194", "L199"}
    /\ ~Issued("waitpid", <<"node">>)
    /\ 196 \notin log
    /\ pc \in {"L194", "L199"} =>
         CallsAfter(Len(calls) - 3) =
           << Call("fork", <<"node">>), Call("usleep", << >>),
              Call("fork", <<"socat">>) >>

C9_Witness ==
  /\ node_pid = -1
  /\ pc = "L199"
  /\ socat_pid > 0
  /\ procs["socat"].st = "running"

\* The workload's execv failed: the child is the zombie of _exit(127), or
\* has been reaped with that status.
NodeExecFailed ==
  \/ procs["node"] = [st |-> "exited", code |-> 127, sig |-> 0, core |-> FALSE]
  \/ status = 127 * 256

\* C10 as stated: when the exec of the workload fails, the launch gives the
\* supervisor a launch-failure indicator, the bridge is still launched, and
\* the supervisor parks without a blocking wait on a workload handle.
C10_ExecFailureIsLaunchFailure ==
  NodeExecFailed =>
    /\ node_pid = -1
    /\ ~Issued("waitpid", <<"node">>)
    /\ pc = "L199" => Issued("fork", <<"socat">>)

\* C10 amended: when the exec of the workload fails, spawn has returned the
\* child's pid (not -1); the bridge launch is still attempted; the supervisor
\* does issue waitpid on that pid, which finds the child exited and stores
\* the status of exit code 127, and only then parks.
C10_ExecFailureIsWaitedFor ==
  NodeExecFailed =>
    /\ node_pid = PidOf["node"]
    /\ pc \in {"L186", "L190", "L194", "L195", "L199"}
    /\ pc = "L195" => procs["node"].st = "exited"
    /\ pc = "L199" =>
         /\ Issued("fork", <<"socat">>)
         /\ Issued("waitpid", <<"node">>)
         /\ status = 127 * 256
         /\ 196 \in log

C10_Witness ==
  /\ pc = "L199"
  /\ status = 127 * 256
  /\ socat_pid > 0
  /\ Issued("waitpid", <<"node">>)

----------------------------------------------------------------------------
(* ensure_dir on its own: any sequence of calls, on the paths the program  *)
(* passes to it, from the state main starts in.                            *)

EnsurePaths == { <<"var">>, <<"var", "log">>, <<"proc">>, <<"sys">>, <<"dev">>,
                 <<"mnt">>, OVERLAY_MNT, MERGED_ROOT, upper_dir, work_dir,
                 oldroot_path }

InitEnsure ==
  /\ Init
  /\ ~devNode

\* One call ensure_dir(p, 0755); a failure is logged at line 56.
ensure_dir_call ==
  /\ Len(calls) < MaxEnsureCalls
  /\ \E p \in EnsurePaths :
       /\ ensure_dir(p, 56)
       /\ calls' = Append(calls, Call("mkdir", p))
  /\ UNCHANGED <<pc, mounts, devNode, svcvars, ovlvars>>

SpecEnsureDir == InitEnsure /\ [][ensure_dir_call]_vars

\* C11: ensure_dir is idempotent: a call on a path that an earlier call
\* created or found (so the directory exists) logs no failure and leaves the
\* set of directories as it was.
C11_EnsureDirIdempotent ==
  [][ \A p \in EnsurePaths :
        ( /\ calls' = Append(calls, Call("mkdir", p))
          /\ Issued("mkdir", p)
          /\ DirExists(mounts, dirs, p) )
        => (dirs' = dirs /\ log' = log) ]_vars

\* ensure_dir was called twice on /mnt/merged: the first call created it,
\* the second found it, and nothing was logged.
C11_Witness ==
  /\ calls = << Call("mkdir", MERGED_ROOT), Call("mkdir", MERGED_ROOT) >>
  /\ Vda(MERGED_ROOT) \in dirs
  /\ \E b \in Boots : Vda(MERGED_ROOT) \notin b.image /\ dirs = b.image \cup b.disk \cup {Vda(MERGED_ROOT)}
  /\ log = {}

----------------------------------------------------------------------------
(* Unwinding.                                                              *)

IsUmount(c) == c.op = "umount"

\* The targets of the umount calls issued so far, in order.
UmountTargets ==
  LET u == SelectSeq(calls, IsUmount) IN [i \in 1..Len(u) |-> u[i].arg]

\* The mount of line 107 / of line 126 has been called and has succeeded.
StagingMounted == 106 \in log /\ 108 \notin log
UnionMounted == 125 \in log /\ 127 \notin log

\* C12: the unmounts issued are the mounts that had succeeded, in reverse
\* order: none after a staging-mount failure, the staging mount alone after
\* a union-mount failure, the union mount and then the staging mount after a
\* root-switch failure; no unmount is issued for a mount not performed.
C12_UnwindInReverseOrder ==
  /\ \A i \in 1..Len(UmountTargets) :
       /\ UmountTargets[i] = OVERLAY_MNT => StagingMounted
       /\ UmountTargets[i] = MERGED_ROOT => UnionMounted
       /\ UmountTargets[i] \in {OVERLAY_MNT, MERGED_ROOT}
  /\ ret = "false" =>
       /\ 108 \in log => UmountTargets = << >>
       /\ 127 \in log => UmountTargets = << OVERLAY_MNT >>
       /\ 141 \in log => UmountTargets = << MERGED_ROOT, OVERLAY_MNT >>
       /\ 108 \in log \/ 127 \in log \/ 141 \in log
  /\ ret = "true" => UmountTargets = << >>

C12_Witness ==
  /\ pc = "L222"
  /\ ret = "false"
  /\ 141 \in log
  /\ UmountTargets = << MERGED_ROOT, OVERLAY_MNT >>
  /\ mounts = entry.mounts

SetupFailed == pc = "L222" /\ ret = "false"

\* C13: after a failed attempt the mount table and the directories on the
\* root filesystem and on the overlay device are those of the entry to
\* setup_overlay.
C13_FailureLeavesNoSideEffects ==
  SetupFailed => (mounts = entry.mounts /\ dirs = entry.dirs)

\* The previous root and what was mounted on it: the mounts at or below
\* /oldroot after the root switch.
OldRootMounts == {m \in mounts : IsPrefix(<<"oldroot">>, m.target)}

\* C14 as stated: once setup_overlay has returned true, also when umount2 or
\* chdir failed, the previous root is detached and the root is the union.
C14_AppliedAlwaysDetached ==
  ret = "true" => (RootIsUnion /\ OldRootMounts = {})

\* C14, amended: once setup_overlay has returned true, also when chdir
\* failed, the root is the union filesystem; the previous root is detached
\* when umount2 succeeded, and when umount2 failed (logged as non-fatal) it
\* is still mounted at /oldroot.
C14_AppliedRootIsUnion ==
  ret = "true" =>
    /\ RootIsUnion
    /\ 155 \notin log => OldRootMounts = {}
    /\ 155 \in log =>
         \E m \in mounts : m.target = <<"oldroot">> /\ m.src = "/dev/vda"

C14_Witness ==
  /\ ret = "true"
  /\ pc = "L243"
  /\ 149 \in log
  /\ 155 \in log
  /\ RootIsUnion
  /\ \E m \in mounts : m.target = <<"oldroot">> /\ m.src = "/dev/vda"

----------------------------------------------------------------------------
(* The supervisor.                                                         *)

\* The position of a line of start_services in its text; 0 before it.
SupervisorRank(p) ==
  CASE p = "L170" -> 1 [] p = "L170w" -> 2 [] p = "L173" -> 3
    [] p = "L173w" -> 4 [] p = "L180" -> 5 [] p = "L182" -> 6
    [] p = "L186" -> 7 [] p = "L190" -> 8 [] p = "L194" -> 9
    [] p = "L195" -> 10 [] p = "L199" -> 11 [] OTHER -> 0

\* The positions in cs of the launch attempts of role r.
Launches(cs, r) == {i \in 1..Len(cs) : cs[i] = Call("fork", <<r>>)}

\* In cs the bridge launch, if any, follows a workload launch attempt and
\* after it the readiness delay.
BridgeAfterDelay(cs) ==
  \A k \in Launches(cs, "socat") :
    \E i \in Launches(cs, "node") :
      \E j \in (i + 1)..(k - 1) : cs[j] = Call("usleep", << >>)

\* C15: the supervisor only moves forward; the workload launch and the
\* bridge launch are each attempted at most once; the bridge launch comes
\* after the workload launch attempt and the readiness delay.
C15_SupervisorForwardOnly ==
  [][ /\ SupervisorRank(pc') >= SupervisorRank(pc)
      /\ Cardinality(Launches(calls', "node")) <= 1
      /\ Cardinality(Launches(calls', "socat")) <= 1
      /\ BridgeAfterDelay(calls') ]_vars

C15_Witness ==
  /\ pc = "L199"
  /\ Cardinality(Launches(calls, "node")) = 1
  /\ Cardinality(Launches(calls, "socat")) = 1
  /\ node_pid > 0
  /\ socat_pid > 0
  /\ procs["socat"].st = "running"
  /\ 196 \in log

\* C16: the final wait names the workload only: the supervisor leaves line
\* 195 and logs a status only in a step from a state where the workload has
\* exited, and that step reaps the workload and leaves the bridge as it
\* was; no waitpid is ever issued for the bridge, so a bridge that has
\* exited stays unreaped.
C16_WaitTargetsWorkloadOnly ==
  [][ /\ (pc = "L195" /\ pc' # "L195") =>
           /\ procs["node"].st = "exited"
           /\ procs'["node"].st = "none"
           /\ procs'["socat"] = procs["socat"]
           /\ calls' = Append(calls, Call("waitpid", <<"node">>))
      /\ (196 \in log' /\ 196 \notin log) => procs["node"].st = "exited"
      /\ \A i \in 1..Len(calls') : calls'[i] # Call("waitpid", <<"socat">>)
      /\ procs["socat"].st = "exited" => procs'["socat"] = procs["socat"] ]_vars

\* The bridge has exited while the workload runs and the supervisor waits.
C16_Witness ==
  /\ pc = "L195"
  /\ procs["socat"].st = "exited"
  /\ procs["node"].st = "running"
  /\ ~Issued("waitpid", <<"node">>)
  /\ 196 \notin log

----------------------------------------------------------------------------
(* Mount targets.                                                          *)

\* The directories on which the program mounts (lines 107, 126, 216-218 and
\* 226-228); the root switch of line 140 needs oldroot_path.
MountTargets == {<<"proc">>, <<"sys">>, <<"dev">>, OVERLAY_MNT, MERGED_ROOT}

\* This step issues a mount on target t.
MountsOn(t) == calls' = Append(calls, Call("mount", t))

PivotsRoot == calls' = Append(calls, Call("pivot_root", MERGED_ROOT))

\* C17 as stated: a mount, and the root switch, is attempted only when its
\* target directory exists.
C17_MountOnlyOnExistingTarget ==
  [][ /\ \A t \in MountTargets : MountsOn(t) => DirExists(mounts, dirs, t)
      /\ PivotsRoot => DirExists(mounts, dirs, oldroot_path) ]_vars

\* C17, amended: a mount on a missing target directory is attempted all the
\* same; it fails, so the mount table stays as it was, and the failure is
\* logged and handled as any mount failure: main goes on, setup_overlay
\* returns false after a staging-mount failure, unmounts the staging mount
\* after a union-mount failure and starts the rollback after a root-switch
\* failure.
C17_MountOnMissingTargetFails ==
  [][ /\ \A t \in MountTargets :
           (MountsOn(t) /\ ~DirExists(mounts, dirs, t)) =>
              /\ mounts' = mounts
              /\ log' # log
              /\ log \subseteq log'
              /\ pc = "L107" => (pc' = "L222" /\ ret' = "false")
              /\ pc = "L126" => pc' = "L129"
      /\ (PivotsRoot /\ ~DirExists(mounts, dirs, oldroot_path)) =>
              /\ mounts' = mounts
              /\ 141 \in log'
              /\ pc' = "L142" ]_vars

\* The union mount was attempted on a merged root that does not exist, and
\* so was the mount of /sys.
C17_Witness ==
  /\ pc = "L129"
  /\ ~DirExists(mounts, dirs, MERGED_ROOT)
  /\ Issued("mount", MERGED_ROOT)
  /\ {103, 127, 217} \subseteq log
  /\ Issued("mount", <<"sys">>)
  /\ ~DirExists(mounts, dirs, <<"sys">>)
  /\ StagingMnt \in mounts

----------------------------------------------------------------------------
(* Children.                                                               *)

\* The states of a child: not a process, forked and about to call execv,
\* running the program execv loaded, or exited and not yet reaped.  None of
\* them runs the code of init.
ChildStates == {"none", "forked", "running", "exited"}

\* C18: a forked child whose execv fails exits at once with status 127 and
\* runs no further step of init, so PID 1 alone runs the bootstrapper and
\* the supervisor; the status its parent gets from waitpid differs from -1
\* (no fork) and from 0 (normal exit).
C18_ExecFailureExits127 ==
  [][ /\ \A r \in Roles :
           /\ procs'[r].st \in ChildStates
           /\ (procs[r].st = "forked" /\ procs'[r] # procs[r]) =>
                 \/ procs'[r].st = "running"
                 \/ /\ procs'[r] = [st |-> "exited", code |-> 127, sig |-> 0, core |-> FALSE]
                    /\ pc' = pc
                    /\ calls' = calls
                    /\ mounts' = mounts /\ dirs' = dirs
      /\ (pc = "L195" /\ pc' = "L199" /\ procs["node"].code = 127
            /\ procs["node"].sig = 0) =>
           /\ status' = 32512
           /\ status' \notin {-1, 0}
           /\ node_pid # -1
      /\ (pc = "L195" /\ pc' = "L199" /\ procs["node"].code = 0
            /\ procs["node"].sig = 0) =>
           status' = 0 ]_vars

\* Both children failed to exec; the workload's status has been collected.
C18_Witness ==
  /\ pc = "L199"
  /\ status = 32512
  /\ procs["socat"] = [st |-> "exited", code |-> 127, sig |-> 0, core |-> FALSE]
  /\ Issued("waitpid", <<"node">>)
  /\ 196 \in log

----------------------------------------------------------------------------
(* Progress.                                                               *)

\* The supervisor has attempted both launches and is at the wait on the
\* workload or in the parking loop.
Supervising ==
  /\ pc \in {"L195", "L199"}
  /\ Issued("fork", <<"node">>)
  /\ Issued("fork", <<"socat">>)

\* C19: when every call of PID 1 other than the wait on the workload
\* returns, every execution reaches the wait on the workload or the parking
\* loop, with both launches attempted, whatever failed on the way.
C19_BootReachesSupervision == <>Supervising

\* Everything that can fail has failed, and the supervisor is parked.
C19_Witness ==
  /\ pc = "L199"
  /\ Issued("fork", <<"node">>)
  /\ Issued("fork", <<"socat">>)
  /\ node_pid = -1
  /\ socat_pid = -1
  /\ {216, 217, 218, 108, 233} \subseteq log

\* The workload was forked and has exited, during the delay or later, and
\* the supervisor has not yet collected it.
WorkloadGone ==
  /\ pc \in {"L186", "L190", "L194", "L195"}
  /\ node_pid > 0
  /\ procs["node"].st = "exited"

\* C20: the bridge launch does not look at the workload: the step of line
\* 190 always issues the fork for the bridge, the wait on the workload comes
\* only after it, and for a workload that has exited before the wait the
\* wait of line 195 can return at once, and its return logs the status and
\* enters the parking loop.
C20_BridgeLaunchedRegardless ==
  [][ /\ (pc = "L190" /\ pc' # pc) =>
           /\ pc' = "L194"
           /\ calls' = Append(calls, Call("fork", <<"socat">>))
      /\ calls' = Append(calls, Call("waitpid", <<"node">>)) =>
           Issued("fork", <<"socat">>)
      /\ (WorkloadGone /\ pc \in {"L186", "L190"}) =>
           (status' = 0 /\ 196 \notin log')
      /\ (WorkloadGone /\ pc' # pc) =>
           /\ SupervisorRank(pc') = SupervisorRank(pc) + 1
           /\ pc = "L195" => 196 \in log'
      /\ (WorkloadGone /\ pc = "L194") => ENABLED start_L194
      /\ (WorkloadGone /\ pc = "L195") => ENABLED start_L195 ]_vars

\* The bridge runs, the workload has exited on a failed execv, and the
\* supervisor is at the wait.
C20_Witness ==
  /\ pc = "L195"
  /\ procs["socat"].st = "running"
  /\ procs["node"] = [st |-> "exited", code |-> 127, sig |-> 0, core |-> FALSE]
  /\ node_pid > 0
  /\ socat_pid > 0
  /\ ~Issued("waitpid", <<"node">>)

====
